---- MODULE Spec2Model ----
(***************************************************************************)
(* Model of the commit-time retrieval-augmented review pipeline:           *)
(*   .ai-context/build_index.ts      splitToChunks, embedText, main        *)
(*   .ai-context/retrieve.ts         cosine, retrieveForDiff (the variant  *)
(*                                   with error wrapping, unnamed/part_007)*)
(*   .github/hooks/pre-commit-review-local-rag.ts                          *)
(*                                   extractJSON, callLLM, main            *)
(* Each program is a state machine of its own (SpecChunk, SpecBuild,       *)
(* SpecRetrieve, SpecReview); the variables of the programs that a         *)
(* specification does not run stay at their idle values.                   *)
(***************************************************************************)
EXTENDS Integers, Sequences, FiniteSets, TLC

VARIABLES
    \* ---- splitToChunks (build_index.ts:66-96)
    sourceText,     \* the argument: a sequence of characters
    maxChars,       \* the argument
    overlap,        \* the argument
    lines,          \* sourceText.split(LINE_SPLIT_PATTERN)
    currentLine,    \* the cursor of the outer loop (0-based)
    ckChunks,       \* the local `chunks` of splitToChunks
    iterations,     \* history: outer-loop iterations run so far
    ckpc,           \* "loop" | "done"
    \* ---- the index builder, main of build_index.ts (122-188)
    configFile,     \* .ai-context/config.json as stored
    matched,        \* what fast-glob answers: the matched paths, or a failure
    indexFile,      \* .ai-context/index.json as stored
    config,         \* the local `config`
    fileIdx,        \* position of `file` in `files` (the for-of loop)
    fileChunks,     \* the local `fileChunks`
    chunkIdx,       \* position of `chunk` in `fileChunks`
    chunks,         \* the local `chunks`
    embeddingDimension,
    exitCode,       \* -1 while the process runs, then its exit status
    bpc,            \* "start" | "file" | "embed" | "hung" | "exited"
    embedCalls,     \* history: calls of ollama.embeddings made
    dimMismatch,    \* history: an "Inconsistent embedding dimensions" error was thrown
    skipped,        \* history: the files whose processing ended in the per-file catch
    indexWrites,    \* history: writes of the index file that completed
    writeFailed,    \* history: writeFileSync threw
    \* ---- retrieveForDiff (unnamed/part_007:88-125)
    queryResponse,  \* what ollama.embeddings will answer to the query
    diffText,       \* the argument: a sequence of characters
    rConfig,        \* the local `config`
    rIndex,         \* the local `index`
    queryVector,    \* the local `queryVector`
    retrieved,      \* the chunks returned
    rError,         \* "none", or the kind of the error thrown
    rpc,            \* "start" | "embedding" | "returned" | "threw"
    rEmbedCalls,    \* history: calls of ollama.embeddings made
    \* ---- the review hook: callLLM and main of pre-commit-review-local-rag.ts
    staged,         \* what `git diff --cached` gives: the text, or a failure
    reviewConfig,   \* the local `reviewConfig`
    relevantContexts,
    attempt,        \* callLLM's loop variable
    lastOutcome,    \* how the latest ollama.generate call settled
    failures,       \* history: how each failed attempt failed, "parse" or "error"
    waits,          \* history: the backoff delays waited, in ms
    llmCalls,       \* history: calls of ollama.generate made
    callOutcome,    \* "none" | "value" | "null" | "threw": how callLLM ended
    reviewResult,   \* the local `reviewResult` when callLLM returned an object
    reviewExit,     \* -1 while the process runs, then its exit status
    vpc,            \* "start" | "retrieving" | "generate" | "backoff" | "exited"
    \* ---- formatContexts (pre-commit-review-local-rag.ts:135-145)
    contextChunks,  \* the argument: the ranked chunks
    budgetChars,    \* the argument maxChars
    formattedContext, \* the buffer returned
    fpc,            \* "start" | "done"; "main" | "prompted" when main calls it
    \* ---- the prompt assembly in main (pre-commit-review-local-rag.ts:160-168)
    stagedChanges,  \* the staged diff
    promptLimit,    \* reviewConfig.maxPromptChars
    reviewPrompt    \* the local `reviewPrompt`

chunkVars == <<sourceText, maxChars, overlap, lines, currentLine, ckChunks, iterations, ckpc>>

\* The two stored files every program of the pipeline reads.
stored == <<configFile, indexFile>>

buildVars == <<matched, config, fileIdx, fileChunks, chunkIdx, chunks,
               embeddingDimension, exitCode, bpc, embedCalls, dimMismatch, skipped, indexWrites,
               writeFailed>>

retrieveVars == <<queryResponse, diffText, rConfig, rIndex, queryVector, retrieved, rError, rpc, rEmbedCalls>>

reviewVars == <<staged, reviewConfig, relevantContexts, attempt, lastOutcome, failures, waits,
                llmCalls, callOutcome, reviewResult, reviewExit, vpc>>

formatVars == <<contextChunks, budgetChars, formattedContext, fpc,
                stagedChanges, promptLimit, reviewPrompt>>

vars == <<stored, chunkVars, buildVars, retrieveVars, reviewVars, formatVars>>

(***************************************************************************)
(* A program that a specification does not run: its variables at rest.     *)
(***************************************************************************)
\* config.json: absent ("missing"), not JSON ("malformed"), or a record ("ok").
ConfigRecord(st, mc, ov, k, block, mp) ==
    [state |-> st, chunkMaxChars |-> mc, chunkOverlapChars |-> ov, topK |-> k,
     blockOnSeverities |-> block, maxPromptChars |-> mp]
UnreadableConfigs == {ConfigRecord(st, 0, 0, 0, {}, 0) : st \in {"missing", "malformed"}}
NoConfig == ConfigRecord("missing", 0, 0, 0, {}, 0)
NoIndex == [exists |-> FALSE, dim |-> 0, chunks |-> <<>>]
NoMatch == [ok |-> TRUE, files |-> <<>>]

ChunkIdle ==
    /\ sourceText = <<>> /\ maxChars = 1 /\ overlap = 0
    /\ lines = <<>> /\ currentLine = 0 /\ ckChunks = <<>>
    /\ iterations = 0 /\ ckpc = "idle"

StoredIdle == configFile = NoConfig /\ indexFile = NoIndex

NoResponse == [kind |-> "rejected", embedding |-> <<>>]

RetrieveIdle ==
    /\ queryResponse = NoResponse
    /\ diffText = <<>> /\ rConfig = NoConfig /\ rIndex = NoIndex /\ queryVector = <<>>
    /\ retrieved = <<>> /\ rError = "none" /\ rpc = "idle" /\ rEmbedCalls = 0

\* A parsed JSON object, as far as the hook reads it: its severity member
\* ("none": no such member), its inlineComments member (an array of objects, or
\* anything else) and its generalComments member (the number of remarks).
JsonObject(sev, ic, gc) == [severity |-> sev, inlineComments |-> ic, generalComments |-> gc]
NotArray == [isArray |-> FALSE, items |-> <<>>]
ArrayOf(items) == [isArray |-> TRUE, items |-> items]
EmptyObject == JsonObject("none", NotArray, 0)
\* The JSON value null as an item of an array.
NullItem == JsonObject("null", NotArray, 0)
NoOutcome == [kind |-> "none", text |-> <<>>]

PromptIdle == stagedChanges = <<>> /\ promptLimit = 0 /\ reviewPrompt = <<>>

FormatIdle ==
    /\ contextChunks = <<>> /\ budgetChars = 0 /\ formattedContext = <<>> /\ fpc = "idle"
    /\ PromptIdle

ReviewIdle ==
    /\ staged = [ok |-> TRUE, text |-> <<>>] /\ reviewConfig = NoConfig
    /\ relevantContexts = <<>> /\ attempt = 0 /\ lastOutcome = NoOutcome
    /\ failures = <<>> /\ waits = <<>> /\ llmCalls = 0 /\ callOutcome = "none"
    /\ reviewResult = EmptyObject /\ reviewExit = -1 /\ vpc = "idle"

BuildIdle ==
    /\ matched = NoMatch
    /\ config = NoConfig /\ fileIdx = 0 /\ fileChunks = <<>> /\ chunkIdx = 0
    /\ chunks = <<>> /\ embeddingDimension = -1 /\ exitCode = -1 /\ bpc = "idle"
    /\ embedCalls = 0 /\ dimMismatch = FALSE /\ skipped = {} /\ indexWrites = 0
    /\ writeFailed = FALSE

Max(a, b) == IF a >= b THEN a ELSE b
Min(a, b) == IF a <= b THEN a ELSE b

(***************************************************************************)
(* Bounds of the chunker's inputs.                                         *)
(***************************************************************************)
MaxTextLen == 5
MaxChunkChars == 4
MaxOverlapLines == 2

\* The assumed average line width of the overlap step (build_index.ts:84).
AvgLineWidth == 80

Chars == {"a", "\r", "\n"}

RECURSIVE SeqsUpTo(_, _)
SeqsUpTo(S, n) ==
    IF n = 0 THEN {<<>>}
    ELSE LET shorter == SeqsUpTo(S, n - 1)
         IN  shorter \cup {Append(s, x) : s \in {t \in shorter : Len(t) = n - 1}, x \in S}

Texts == SeqsUpTo(Chars, MaxTextLen)

\* overlapChars values: none, just below a multiple of the line width, and on it.
OverlapChoices == {0} \cup {AvgLineWidth * k - 1 : k \in 1..MaxOverlapLines}
                      \cup {AvgLineWidth * k : k \in 1..MaxOverlapLines}

(***************************************************************************)
(* String.split(/\r?\n/): a "\n" ends the current line, and takes a "\r"   *)
(* right before it along; the text after the last "\n" is the last line,   *)
(* so the result always holds at least one line ("" gives <<"">>).         *)
(***************************************************************************)
RECURSIVE SplitFrom(_, _, _, _)
SplitFrom(text, i, cur, acc) ==
    IF i > Len(text) THEN Append(acc, cur)
    ELSE IF text[i] = "\n"
         THEN LET line == IF Len(cur) > 0 /\ cur[Len(cur)] = "\r"
                          THEN SubSeq(cur, 1, Len(cur) - 1) ELSE cur
              IN  SplitFrom(text, i + 1, <<>>, Append(acc, line))
         ELSE SplitFrom(text, i + 1, Append(cur, text[i]), acc)

SplitLines(text) == SplitFrom(text, 1, <<>>, <<>>)

\* Array.join("\n") of lines[from+1 .. to] (0-based from, exclusive to).
RECURSIVE JoinLines(_, _, _)
JoinLines(ls, from, to) ==
    IF from >= to THEN <<>>
    ELSE IF from + 1 = to THEN ls[to]
    ELSE JoinLines(ls, from, to - 1) \o <<"\n">> \o ls[to]

\* The inner loop's test (build_index.ts:76).
FitsLine_NoSeparator(chunkLength, lineLen, mc) == chunkLength + lineLen <= mc
FitsLine(chunkLength, lineLen, mc) == chunkLength + lineLen < mc

\* The inner loop (build_index.ts:76-80): the cursor after accumulating lines.
RECURSIVE TakeLines(_, _, _, _)
TakeLines(ls, i, chunkLength, mc) ==
    IF i < Len(ls) /\ FitsLine(chunkLength, Len(ls[i + 1]), mc)
    THEN TakeLines(ls, i + 1, chunkLength + Len(ls[i + 1]) + 1, mc)
    ELSE i

\* build_index.ts:84
OverlapLines(ov) == ov \div AvgLineWidth

\* The backward overlap step (build_index.ts:83-86).
StepBack_Always(i, n, ov) == Max(i - OverlapLines(ov), 0)
StepBack(i, n, ov) ==
    IF ov > 0 /\ i < n THEN Max(i - OverlapLines(ov), 0) ELSE i

\* startLine of an accumulated chunk (build_index.ts:74).
StartLineOf_ZeroBased(cursor) == cursor
StartLineOf(cursor) == cursor + 1

(***************************************************************************)
(* One iteration of the outer loop (build_index.ts:72-93), as a function   *)
(* of the cursor: the cursor after it and the chunks it emits.             *)
(***************************************************************************)
OuterIteration(ls, cur, mc, ov) ==
    LET taken   == TakeLines(ls, cur, 0, mc)
        endLine == taken
        back    == StepBack(taken, Len(ls), ov)
    IN  IF taken > cur
        THEN [cursor  |-> back,
              emitted |-> <<[text |-> JoinLines(ls, cur, taken),
                             startLine |-> StartLineOf(cur), endLine |-> endLine]>>]
        ELSE IF back < Len(ls)
        THEN [cursor  |-> back + 1,
              emitted |-> <<[text |-> ls[back + 1],
                             startLine |-> back + 1, endLine |-> back + 1]>>]
        ELSE [cursor |-> back, emitted |-> <<>>]

\* A run of splitToChunks that never returns is cut after this many chunks.
MaxEmitted == MaxTextLen + 3

\* splitToChunks is entered with its arguments; lines 67-70 have run.
ChunkEntered ==
    /\ sourceText \in Texts
    /\ maxChars \in 1..MaxChunkChars
    /\ overlap \in OverlapChoices
    /\ lines = SplitLines(sourceText)
    /\ currentLine = 0
    /\ ckChunks = <<>>
    /\ iterations = 0
    /\ ckpc = "loop"

\* build_index.ts:71-94, the loop's test true.
ChunkIterate ==
    /\ ckpc = "loop"
    /\ currentLine < Len(lines)
    /\ Len(ckChunks) < MaxEmitted
    /\ LET r == OuterIteration(lines, currentLine, maxChars, overlap)
       IN  /\ currentLine' = r.cursor
           /\ ckChunks' = ckChunks \o r.emitted
    /\ iterations' = iterations + 1
    /\ UNCHANGED <<sourceText, maxChars, overlap, lines, ckpc>>
    /\ UNCHANGED <<stored, buildVars, retrieveVars, reviewVars, formatVars>>

\* build_index.ts:71 false, then :95.
ChunkReturn ==
    /\ ckpc = "loop"
    /\ currentLine >= Len(lines)
    /\ ckpc' = "done"
    /\ UNCHANGED <<sourceText, maxChars, overlap, lines, currentLine, ckChunks, iterations>>
    /\ UNCHANGED <<stored, buildVars, retrieveVars, reviewVars, formatVars>>

ChunkNext == ChunkIterate \/ ChunkReturn

ChunkInit == ChunkEntered /\ StoredIdle /\ BuildIdle /\ RetrieveIdle /\ ReviewIdle /\ FormatIdle

SpecChunk == ChunkInit /\ [][ChunkNext]_vars

(***************************************************************************)
(* Claims about splitToChunks.                                             *)
(***************************************************************************)

\* C3: the chunker terminates for every text, maxChars > 0 and overlapChars >= 0,
\* the cursor making net forward progress on every iteration of the outer loop,
\* also when the backward overlap step is at least the number of lines consumed.
\* Stated as the progress half: an outer-loop iteration leaves the cursor
\* strictly after where it found it.
C3_ForwardProgress ==
    [][iterations' = iterations + 1 => currentLine' > currentLine]_vars

\* C4: with overlapChars = 0 the chunks' [startLine, endLine] ranges partition
\* the lines 1..lineCount: the first starts at line 1, each next one starts at
\* the previous endLine + 1, the last ends at lineCount. During the loop the
\* chunks emitted so far partition the lines before the cursor.
C4_NoOverlapPartition ==
    (overlap = 0 /\ ckpc \in {"loop", "done"}) =>
        /\ \A k \in 1..Len(ckChunks) :
              /\ ckChunks[k].startLine <= ckChunks[k].endLine
              /\ ckChunks[k].startLine = (IF k = 1 THEN 1 ELSE ckChunks[k - 1].endLine + 1)
        /\ currentLine = (IF ckChunks = <<>> THEN 0 ELSE ckChunks[Len(ckChunks)].endLine)
        /\ (ckpc = "done" => /\ ckChunks # <<>>
                             /\ ckChunks[Len(ckChunks)].endLine = Len(lines))

\* A finished run without overlap that emitted an accumulated chunk of several
\* lines and then a single line that alone does not fit.
C4_Witness ==
    /\ ckpc = "done" /\ overlap = 0 /\ Len(ckChunks) >= 2
    /\ \E k \in 1..Len(ckChunks) : ckChunks[k].endLine > ckChunks[k].startLine
    /\ \E k \in 1..Len(ckChunks) : Len(ckChunks[k].text) >= maxChars

\* C16: when every line of the input is longer than maxChars, then for every
\* overlapChars the chunker emits one chunk per outer-loop iteration, the i-th
\* being line i alone with startLine = endLine = i, makes no more than lineCount
\* iterations and has made exactly lineCount of them when it returns.
C16_OversizedLines ==
    (\A i \in 1..Len(lines) : Len(lines[i]) > maxChars) =>
        /\ iterations <= Len(lines)
        /\ Len(ckChunks) = iterations
        /\ \A k \in 1..Len(ckChunks) :
              /\ k <= Len(lines)
              /\ ckChunks[k] = [text |-> lines[k], startLine |-> k, endLine |-> k]
        /\ ckpc = "done" => iterations = Len(lines)

\* C17: chunking the empty string returns no chunk, for every maxChars > 0 and
\* every overlapChars.
C17_EmptyTextNoChunks ==
    (sourceText = <<>> /\ ckpc = "done") => ckChunks = <<>>

\* The length of lines a..b of ls joined by one separator between neighbours.
RECURSIVE JoinedLength(_, _, _)
JoinedLength(ls, a, b) ==
    IF a > b THEN 0
    ELSE IF a = b THEN Len(ls[a])
    ELSE Len(ls[a]) + 1 + JoinedLength(ls, a + 1, b)

\* C20: every emitted chunk is as long as its lines joined by one separator;
\* that length is strictly less than maxChars unless the chunk is one line that
\* alone does not fit.
C20_ChunkSizeBound ==
    \A k \in 1..Len(ckChunks) :
        LET c == ckChunks[k]
        IN  /\ 1 <= c.startLine /\ c.startLine <= c.endLine /\ c.endLine <= Len(lines)
            /\ Len(c.text) = JoinedLength(lines, c.startLine, c.endLine)
            /\ \/ Len(c.text) < maxChars
               \/ c.startLine = c.endLine /\ Len(lines[c.startLine]) >= maxChars

\* A chunk of two lines one character short of maxChars, and after it a single
\* line that does not fit.
C20_Witness ==
    /\ ckpc = "done"
    /\ \E k \in 1..Len(ckChunks) :
          ckChunks[k].endLine > ckChunks[k].startLine /\ Len(ckChunks[k].text) = maxChars - 1
    /\ \E k \in 1..Len(ckChunks) : Len(ckChunks[k].text) >= maxChars

(***************************************************************************)
(* The index builder: main of build_index.ts.                              *)
(***************************************************************************)
MaxFiles == 2
MaxDim == 2

\* splitToChunks run to its return. The loop is deterministic in the cursor, which
\* stays in 0..lineCount-1 while the loop runs, so a call that has not returned
\* after lineCount iterations has met a cursor value twice and never returns.
RECURSIVE SplitRun(_, _, _, _, _, _)
SplitRun(ls, cur, mc, ov, acc, fuel) ==
    IF cur >= Len(ls) THEN [returns |-> TRUE, chunks |-> acc]
    ELSE IF fuel = 0 THEN [returns |-> FALSE, chunks |-> <<>>]
    ELSE LET r == OuterIteration(ls, cur, mc, ov)
         IN  SplitRun(ls, r.cursor, mc, ov, acc \o r.emitted, fuel - 1)

splitToChunks(text, mc, ov) ==
    LET ls == SplitLines(text) IN SplitRun(ls, 0, mc, ov, <<>>, Len(ls))

\* The stored configuration record: absent, not JSON, or a record, the last two
\* records with values outside the configuration's invariants.
ConfigFiles ==
    UnreadableConfigs
    \cup {ConfigRecord("ok", 2, 0, 1, {"blocker"}, 8),
          ConfigRecord("ok", 4, 0, 1, {"blocker"}, 8),
          ConfigRecord("ok", 2, AvgLineWidth, 1, {"blocker"}, 8),
          ConfigRecord("ok", 0, 0, 1, {"blocker"}, 8),
          ConfigRecord("ok", 2, -1, 0, {"blocker"}, 8)}

\* A matched path: a directory, a path that lstat or readFile fails on, or a file.
FileTexts == {<<>>, <<"a">>, <<"a", "\n", "a">>}
FileEntries ==
    {[kind |-> k, content |-> <<>>] : k \in {"dir", "gone", "unreadable"}}
    \cup {[kind |-> "file", content |-> t] : t \in FileTexts}

\* What ollama.embeddings answers: a rejection, a response without an embedding
\* array, or an embedding of some length (the numbers play no part in a build).
EmbedResponses ==
    {[kind |-> k, embedding |-> <<>>] : k \in {"rejected", "noarray"}}
    \cup {[kind |-> "array", embedding |-> [i \in 1..d |-> 1]] : d \in 0..MaxDim}

\* embedText (build_index.ts:105-117): the vector, or a throw.
embedText(response) ==
    IF response.kind = "array"
    THEN [threw |-> FALSE, vector |-> response.embedding]
    ELSE [threw |-> TRUE, vector |-> <<>>]

\* build_index.ts:153
DimensionUnset(dim) == dim = -1
\* build_index.ts:155, negated: the vector may join the index.
DimensionMatches_Unchecked(len, dim) == TRUE
DimensionMatches(len, dim) == len = dim

\* An index a build of an earlier run has left behind.
PriorIndex ==
    [exists |-> TRUE, dim |-> 1,
     chunks |-> <<[file |-> 1, startLine |-> 1, endLine |-> 1, text |-> <<"a">>, vector |-> <<1>>]>>]

\* build_index.ts:143 and 146: lstatSync or readFileSync throws.
ReadThrows_GoneOnly(file) == file.kind = "gone"
ReadThrows(file) == file.kind \in {"gone", "unreadable"}

\* build_index.ts:131
NoFiles_Never(files) == FALSE
NoFiles(files) == Len(files) = 0

BuildEntered ==
    /\ configFile \in ConfigFiles
    /\ matched \in {[ok |-> FALSE, files |-> <<>>]}
                   \cup {[ok |-> TRUE, files |-> f] : f \in SeqsUpTo(FileEntries, MaxFiles)}
    /\ indexFile \in {NoIndex, PriorIndex}
    /\ config = NoConfig /\ fileIdx = 0 /\ fileChunks = <<>> /\ chunkIdx = 0
    /\ chunks = <<>> /\ embeddingDimension = -1 /\ exitCode = -1 /\ bpc = "start"
    /\ embedCalls = 0 /\ dimMismatch = FALSE /\ skipped = {} /\ indexWrites = 0
    /\ writeFailed = FALSE

\* process.exit(status), from the outer catch or from main itself.
BuildExit(status) ==
    /\ bpc' = "exited"
    /\ exitCode' = status

\* build_index.ts:123-137: the configuration, the file set, the empty index.
BuildStart ==
    /\ bpc = "start"
    /\ IF configFile.state # "ok" \/ ~matched.ok
       THEN \* loadConfig or fast-glob throws: the outer catch (184-187)
            /\ BuildExit(1)
            /\ UNCHANGED <<config, fileIdx>>
       ELSE IF NoFiles(matched.files)
       THEN \* lines 131-134
            /\ BuildExit(0)
            /\ config' = configFile
            /\ UNCHANGED fileIdx
       ELSE /\ bpc' = "file"
            /\ config' = configFile
            /\ fileIdx' = 1
            /\ UNCHANGED exitCode
    /\ UNCHANGED <<matched, fileChunks, chunkIdx, chunks, embeddingDimension,
                   embedCalls, dimMismatch, skipped, indexWrites, writeFailed>>
    /\ UNCHANGED <<stored, chunkVars, retrieveVars, reviewVars, formatVars>>

\* build_index.ts:139-147: the next file is looked at, read and chunked.
BuildFile ==
    /\ bpc = "file"
    /\ fileIdx <= Len(matched.files)
    /\ LET file == matched.files[fileIdx]
           split == splitToChunks(file.content, config.chunkMaxChars, config.chunkOverlapChars)
       IN  CASE file.kind = "dir" ->
                    \* line 144: continue
                    /\ fileIdx' = fileIdx + 1
                    /\ UNCHANGED <<fileChunks, chunkIdx, skipped, bpc>>
             [] ReadThrows(file) ->
                    \* lstatSync or readFileSync throws: the per-file catch (169-171)
                    /\ fileIdx' = fileIdx + 1
                    /\ skipped' = skipped \cup {fileIdx}
                    /\ UNCHANGED <<fileChunks, chunkIdx, bpc>>
             [] file.kind # "dir" /\ ~ReadThrows(file) /\ ~split.returns ->
                    /\ bpc' = "hung"
                    /\ UNCHANGED <<fileIdx, fileChunks, chunkIdx, skipped>>
             [] file.kind # "dir" /\ ~ReadThrows(file) /\ split.returns /\ split.chunks = <<>> ->
                    /\ fileIdx' = fileIdx + 1
                    /\ fileChunks' = <<>>
                    /\ UNCHANGED <<chunkIdx, skipped, bpc>>
             [] file.kind # "dir" /\ ~ReadThrows(file) /\ split.returns /\ split.chunks # <<>> ->
                    /\ fileChunks' = split.chunks
                    /\ chunkIdx' = 1
                    /\ bpc' = "embed"
                    /\ UNCHANGED <<fileIdx, skipped>>
    /\ UNCHANGED <<matched, config, chunks, embeddingDimension, exitCode,
                   embedCalls, dimMismatch, indexWrites, writeFailed>>
    /\ UNCHANGED <<stored, chunkVars, retrieveVars, reviewVars, formatVars>>

\* build_index.ts:149-168 (and 169-171 when it throws): one chunk is embedded.
BuildEmbed ==
    /\ bpc = "embed"
    /\ \E response \in EmbedResponses :
         LET chunk == fileChunks[chunkIdx]
             res   == embedText(response)
             nextFile == /\ fileIdx' = fileIdx + 1
                         /\ bpc' = "file"
         IN  /\ embedCalls' = embedCalls + 1
             /\ IF res.threw
                THEN /\ nextFile
                     /\ skipped' = skipped \cup {fileIdx}
                     /\ UNCHANGED <<chunkIdx, chunks, embeddingDimension, dimMismatch>>
                ELSE IF ~DimensionUnset(embeddingDimension)
                        /\ ~DimensionMatches(Len(res.vector), embeddingDimension)
                THEN \* line 156: thrown inside the per-file try, caught at 169
                     /\ nextFile
                     /\ skipped' = skipped \cup {fileIdx}
                     /\ dimMismatch' = TRUE
                     /\ UNCHANGED <<chunkIdx, chunks, embeddingDimension>>
                ELSE /\ embeddingDimension' =
                            (IF DimensionUnset(embeddingDimension)
                             THEN Len(res.vector) ELSE embeddingDimension)
                     /\ chunks' = Append(chunks,
                            [file |-> fileIdx, startLine |-> chunk.startLine,
                             endLine |-> chunk.endLine, text |-> chunk.text,
                             vector |-> res.vector])
                     /\ IF chunkIdx < Len(fileChunks)
                        THEN /\ chunkIdx' = chunkIdx + 1
                             /\ UNCHANGED <<fileIdx, bpc>>
                        ELSE /\ nextFile
                             /\ UNCHANGED chunkIdx
                     /\ UNCHANGED <<skipped, dimMismatch>>
    /\ UNCHANGED <<matched, config, fileChunks, exitCode, indexWrites, writeFailed>>
    /\ UNCHANGED <<stored, chunkVars, retrieveVars, reviewVars, formatVars>>

\* An index file cut short by a write that failed part way: loadIndex finds the
\* file and JSON.parse throws on it, a ConfigurationError as for a missing file.
UnreadableIndex == [exists |-> FALSE, dim |-> -1, chunks |-> <<>>]

\* fs.writeFileSync(INDEX_PATH, ...) (build_index.ts:182) opens the file for
\* writing, which empties it, writes and closes: it completes, or throws before
\* the file is opened (the file stays as it was), or throws after (the file is
\* left empty or partial).
WriteOutcomes == {"written", "refused", "cut"}

\* build_index.ts:174-187: the index is assembled and written; main returns and
\* the process ends with status 0, or the write throws and the outer catch ends
\* it with status 1.
BuildPersist ==
    /\ bpc = "file"
    /\ fileIdx > Len(matched.files)
    /\ \E outcome \in WriteOutcomes :
         CASE outcome = "written" ->
                /\ indexFile' = [exists |-> TRUE, dim |-> embeddingDimension, chunks |-> chunks]
                /\ indexWrites' = indexWrites + 1
                /\ BuildExit(0)
                /\ UNCHANGED writeFailed
           [] outcome = "refused" ->
                /\ writeFailed' = TRUE
                /\ BuildExit(1)
                /\ UNCHANGED <<indexFile, indexWrites>>
           [] outcome = "cut" ->
                /\ indexFile' = UnreadableIndex
                /\ writeFailed' = TRUE
                /\ BuildExit(1)
                /\ UNCHANGED indexWrites
    /\ UNCHANGED <<configFile, matched, config, fileIdx, fileChunks, chunkIdx, chunks,
                   embeddingDimension, embedCalls, dimMismatch, skipped>>
    /\ UNCHANGED <<chunkVars, retrieveVars, reviewVars, formatVars>>

BuildNext == BuildStart \/ BuildFile \/ BuildEmbed \/ BuildPersist

BuildInit == BuildEntered /\ ChunkIdle /\ RetrieveIdle /\ ReviewIdle /\ FormatIdle

SpecBuild == BuildInit /\ [][BuildNext]_vars

(***************************************************************************)
(* Claims about the index builder.                                         *)
(***************************************************************************)

\* C5: when an embedding returns a vector whose length differs from the
\* dimensionality fixed by the first successful embedding, the whole build
\* aborts: no further file is processed, no index is persisted by the run and
\* the process exits with status 1.
C5_MismatchAbortsBuild ==
    dimMismatch => (bpc = "exited" /\ exitCode = 1 /\ indexWrites = 0)

\* C6: every index the builder persists has, for every chunk in it,
\* length(chunk.vector) = index.dim, whatever lengths the embedding service
\* returned during the build.
C6_PersistedDimension ==
    indexWrites > 0 =>
        \A k \in 1..Len(indexFile.chunks) : Len(indexFile.chunks[k].vector) = indexFile.dim

\* An index of several chunks written by a build during which the embedding
\* service answered with a vector of another length.
C6_Witness ==
    /\ indexWrites > 0
    /\ Len(indexFile.chunks) >= 2
    /\ dimMismatch

\* The chunks of one file in a chunk list, as splitToChunks gave them.
ChunksOfFile(cs, i) ==
    LET own == SelectSeq(cs, LAMBDA c : c.file = i)
    IN  [k \in 1..Len(own) |->
            [text |-> own[k].text, startLine |-> own[k].startLine, endLine |-> own[k].endLine]]

\* C13: a build in which reading a matched file fails ends, when it ends and
\* the write of the index does not itself fail, with status 0 and the index
\* written; the file that failed has no chunk in it,
\* every other file whose own processing did not fail has all its chunks in
\* it, and the chunks stand in the order the files were enumerated.
C13_ReadFailureSkipsFileOnly ==
    (bpc = "exited" /\ configFile.state = "ok" /\ ~writeFailed
     /\ \E i \in 1..Len(matched.files) : matched.files[i].kind \in {"gone", "unreadable"}) =>
        /\ exitCode = 0 /\ indexWrites = 1 /\ indexFile.exists /\ indexFile.chunks = chunks
        /\ \A i \in 1..Len(matched.files) :
              LET file == matched.files[i] IN
              /\ file.kind \in {"gone", "unreadable"} =>
                    (i \in skipped /\ ChunksOfFile(indexFile.chunks, i) = <<>>)
              /\ (file.kind = "file" /\ i \notin skipped) =>
                    ChunksOfFile(indexFile.chunks, i)
                        = splitToChunks(file.content, config.chunkMaxChars,
                                        config.chunkOverlapChars).chunks
        /\ \A k, l \in 1..Len(indexFile.chunks) :
              k < l => indexFile.chunks[k].file <= indexFile.chunks[l].file

\* The first of two files cannot be read; the second, of two lines, is chunked
\* and embedded and makes up the index.
C13_Witness ==
    /\ bpc = "exited" /\ exitCode = 0 /\ indexWrites = 1
    /\ Len(matched.files) = 2
    /\ matched.files[1].kind = "unreadable"
    /\ matched.files[2].kind = "file"
    /\ skipped = {1}
    /\ Len(indexFile.chunks) = 2
    /\ embedCalls = 2

\* C14: when the patterns match no file, the build exits with status 0, makes
\* no embedding call and writes nothing: an index persisted earlier stays as
\* it is.
C14_ZeroFileNoOp ==
    /\ []((bpc = "exited" /\ configFile.state = "ok" /\ matched.ok /\ matched.files = <<>>)
            => (exitCode = 0 /\ embedCalls = 0 /\ indexWrites = 0 /\ chunks = <<>>))
    /\ [][(matched.ok /\ matched.files = <<>>) => indexFile' = indexFile]_vars

\* A zero-file build has ended and the index of an earlier run is still there.
C14_Witness ==
    /\ bpc = "exited" /\ exitCode = 0
    /\ configFile.state = "ok" /\ matched.ok /\ matched.files = <<>>
    /\ indexFile = PriorIndex

\* C18: in a build no chunk with a zero-length vector is ever added to the
\* index and the dimensionality is never fixed to 0, an embedding response with
\* a missing or empty vector making the embed call fail.
C18_NoEmptyVectors ==
    /\ \A k \in 1..Len(chunks) : Len(chunks[k].vector) > 0
    /\ embeddingDimension # 0
    /\ indexWrites > 0 => indexFile.dim # 0

\* C19: a stored configuration record with chunkMaxChars <= 0, topK < 1 or
\* chunkOverlapChars < 0 makes the load fail: the build ends with status 1 at
\* the load, and no chunking or embedding step runs with those values.
C19_ConfigValidated ==
    (configFile.state = "ok"
     /\ (configFile.chunkMaxChars <= 0 \/ configFile.topK < 1
         \/ configFile.chunkOverlapChars < 0)) =>
        /\ bpc \in {"start", "exited"}
        /\ bpc = "exited" => exitCode = 1
        /\ config = NoConfig
        /\ embedCalls = 0 /\ chunks = <<>>

\* C24: the index file changes only in the last step of a build whose
\* processing completed, a step that ends the run with status 0; a run that
\* ends with status 1 leaves the index persisted before it as it was.
C24_PersistOnlyOnSuccess ==
    [][indexFile' # indexFile =>
          /\ bpc = "file" /\ fileIdx > Len(matched.files)
          /\ bpc' = "exited" /\ exitCode' = 0]_vars

\* C27: for every matched file the persisted index holds either every chunk
\* the chunker produced for it or none; after a failed embedding of a later
\* chunk of a file, the earlier chunks of that file are not in the index.
C27_FileAllOrNothing ==
    indexWrites > 0 =>
        \A i \in 1..Len(matched.files) :
            LET own == ChunksOfFile(indexFile.chunks, i)
            IN  \/ own = <<>>
                \/ /\ matched.files[i].kind = "file"
                   /\ own = splitToChunks(matched.files[i].content, config.chunkMaxChars,
                                          config.chunkOverlapChars).chunks

\* C30: a build in which at least one file matched and every matched file
\* failed to process ends, when the write of the index does not itself fail,
\* with status 0 and the persisted index overwritten by one of zero chunks and
\* dim = -1; and in every persisted index dim = -1 exactly when the chunk list
\* is empty.
C30_AllFilesFailEmptyIndex ==
    /\ (/\ bpc = "exited" /\ configFile.state = "ok" /\ ~writeFailed
        /\ matched.ok /\ Len(matched.files) >= 1
        /\ \A i \in 1..Len(matched.files) : i \in skipped)
          => /\ exitCode = 0 /\ indexWrites = 1
             /\ indexFile = [exists |-> TRUE, dim |-> -1, chunks |-> <<>>]
    /\ indexWrites > 0 => (indexFile.dim = -1 <=> indexFile.chunks = <<>>)

(***************************************************************************)
(* The retriever: cosine and retrieveForDiff (unnamed/part_007).           *)
(***************************************************************************)
MaxIndexChunks == 3
MaxTopK == 3

\* Embedding vectors: small integer coordinates, of length 0, 1 and 2.
Vectors(d) ==
    CASE d = 0 -> {<<>>}
      [] d = 1 -> {<<1>>, <<2>>, <<-1>>}
      [] d = 2 -> {<<1, 0>>, <<0, 1>>, <<2, 0>>, <<1, 1>>, <<0, 0>>, <<-1, 0>>}
IndexDims == 0..2

\* An index as the builder persists it: k chunks, their vectors of one length.
IndexOf(vs) ==
    [exists |-> TRUE,
     dim    |-> IF vs = <<>> THEN -1 ELSE Len(vs[1]),
     chunks |-> [k \in 1..Len(vs) |->
                    [file |-> k, startLine |-> 1, endLine |-> 1, text |-> <<"a">>,
                     vector |-> vs[k]]]]

IndexFiles(n) ==
    {NoIndex} \cup {IndexOf(vs) : vs \in UNION {SeqsUpTo(Vectors(d), n) : d \in IndexDims}}

\* What ollama.embeddings answers to the query.
QueryResponses ==
    {[kind |-> k, embedding |-> <<>>] : k \in {"rejected", "noarray"}}
    \cup {[kind |-> "array", embedding |-> v] : v \in UNION {Vectors(d) : d \in IndexDims}}

RetrieveQueries == {<<>>, <<" ", "\n">>, <<" ", "a">>}

\* String.trim() leaves nothing: the text holds white space only.
IsBlank_EmptyOnly(text) == text = <<>>
IsBlank(text) == \A i \in 1..Len(text) : text[i] \in {" ", "\n", "\r"}

RECURSIVE SumTo(_, _)
SumTo(f, n) == IF n = 0 THEN 0 ELSE SumTo(f, n - 1) + f[n]

\* part_007:73-78. The loop runs over a.length; the lengths are equal here.
Dot(a, b) == SumTo([i \in 1..Len(a) |-> a[i] * b[i]], Len(a))
NormSq(a) == SumTo([i \in 1..Len(a) |-> a[i] * a[i]], Len(a))

Sign(x) == IF x > 0 THEN 1 ELSE IF x < 0 THEN -1 ELSE 0

(***************************************************************************)
(* The order of two cosine scores (part_007:79),                           *)
(*     score(v) = dot(q,v) / (sqrt(|q|^2) * sqrt(|v|^2) + VECTOR_EPSILON), *)
(* as the sign of score(v1) - score(v2), in integers. Both denominators    *)
(* are positive, so the sign is that of                                    *)
(*     sqrt(|q|^2) * (d1*sqrt(n2) - d2*sqrt(n1)) + VECTOR_EPSILON*(d1 - d2)*)
(* with di = dot(q,vi), ni = |vi|^2. For the coordinates used here the     *)
(* first term, when not zero, exceeds the second by orders of magnitude;   *)
(* when it is zero the epsilon term decides (of two parallel vectors the   *)
(* longer scores closer to 1 or -1). x |-> sign(x)*x^2 is increasing, so   *)
(* d1*sqrt(n2) and d2*sqrt(n1) compare as their signed squares.            *)
(***************************************************************************)
ScoreOrder(q, v1, v2) ==
    LET d1 == Dot(q, v1)
        d2 == Dot(q, v2)
        a  == Sign(d1) * d1 * d1 * NormSq(v2)
        b  == Sign(d2) * d2 * d2 * NormSq(v1)
    IN  IF a # b THEN Sign(a - b) ELSE Sign(d1 - d2)

\* part_007:69-71
LengthMismatch(a, b) == Len(a) # Len(b)

\* The comparator given to sort (part_007:115): b.score - a.score; a negative
\* answer puts a first.
Comparator_Ascending(q, a, b) == ScoreOrder(q, a.vector, b.vector)
Comparator(q, a, b) == ScoreOrder(q, b.vector, a.vector)

\* Array.prototype.sort: a stable sort by the comparator. Each element goes in
\* after every element already placed that does not have to follow it.
RECURSIVE InsertSorted(_, _, _)
InsertSorted(q, sorted, x) ==
    IF sorted = <<>> THEN <<x>>
    ELSE IF Comparator(q, Head(sorted), x) > 0
         THEN <<x>> \o sorted
         ELSE <<Head(sorted)>> \o InsertSorted(q, Tail(sorted), x)

RECURSIVE SortChunks(_, _, _)
SortChunks(q, cs, n) ==
    IF n = 0 THEN <<>> ELSE InsertSorted(q, SortChunks(q, cs, n - 1), cs[n])

\* Array.prototype.slice(0, k), k >= 0.
SliceTo_OneMore(xs, k) == SubSeq(xs, 1, Min(k + 1, Len(xs)))
SliceTo(xs, k) == SubSeq(xs, 1, Min(k, Len(xs)))

\* part_007:110-118
RankChunks(q, cs, topK) == SliceTo(SortChunks(q, cs, Len(cs)), topK)

RetrieveConfigs(maxK) ==
    UnreadableConfigs \cup {ConfigRecord("ok", 2, 0, k, {"blocker"}, 8) : k \in 1..maxK}

RetrieveEntered ==
    /\ diffText \in RetrieveQueries
    /\ rConfig = NoConfig /\ rIndex = NoIndex /\ queryVector = <<>>
    /\ retrieved = <<>> /\ rError = "none" /\ rpc = "start" /\ rEmbedCalls = 0

\* throw: the catch at part_007:119-124 rethrows a ConfigurationError as it is
\* and wraps anything else in an Error.
RetrieveThrow(kind) ==
    /\ rpc' = "threw"
    /\ rError' = kind

\* part_007:89-97: the configuration and the index are loaded, the query is
\* looked at, the embedding is requested.
RetrieveStart ==
    /\ rpc = "start"
    /\ IF configFile.state # "ok" \/ ~indexFile.exists
       THEN /\ RetrieveThrow("ConfigurationError")
            /\ UNCHANGED <<rConfig, rIndex, rEmbedCalls>>
       ELSE /\ rConfig' = configFile
            /\ rIndex' = indexFile
            /\ IF IsBlank(diffText)
               THEN /\ RetrieveThrow("Error")
                    /\ UNCHANGED rEmbedCalls
               ELSE /\ rpc' = "embedding"
                    /\ rEmbedCalls' = rEmbedCalls + 1
                    /\ UNCHANGED rError
    /\ UNCHANGED <<queryResponse, diffText, queryVector, retrieved>>
    /\ UNCHANGED <<stored, chunkVars, buildVars, reviewVars, formatVars>>

\* part_007:97-118: the embedding call settles; the chunks are scored, sorted
\* and cut to topK.
RetrieveEmbedded ==
    /\ rpc = "embedding"
    /\ LET response == queryResponse IN
         IF response.kind = "rejected"
         THEN /\ RetrieveThrow("Error")
              /\ UNCHANGED <<queryVector, retrieved>>
         ELSE IF response.kind = "noarray" \/ Len(response.embedding) = 0
         THEN /\ RetrieveThrow("Error")
              /\ UNCHANGED <<queryVector, retrieved>>
         ELSE /\ queryVector' = response.embedding
              /\ IF \E k \in 1..Len(rIndex.chunks) :
                        LengthMismatch(response.embedding, rIndex.chunks[k].vector)
                 THEN /\ RetrieveThrow("Error")
                      /\ UNCHANGED retrieved
                 ELSE /\ retrieved' = RankChunks(response.embedding, rIndex.chunks, rConfig.topK)
                      /\ rpc' = "returned"
                      /\ UNCHANGED rError
    /\ UNCHANGED <<queryResponse, diffText, rConfig, rIndex, rEmbedCalls>>
    /\ UNCHANGED <<stored, chunkVars, buildVars, reviewVars, formatVars>>

RetrieveNext == RetrieveStart \/ RetrieveEmbedded

RetrieveInit ==
    /\ configFile \in RetrieveConfigs(MaxTopK)
    /\ indexFile \in IndexFiles(MaxIndexChunks)
    /\ queryResponse \in QueryResponses
    /\ RetrieveEntered /\ ChunkIdle /\ BuildIdle /\ ReviewIdle /\ FormatIdle

SpecRetrieve == RetrieveInit /\ [][RetrieveNext]_vars

(***************************************************************************)
(* Claims about the retriever.                                             *)
(***************************************************************************)
Outranks(q, c1, c2) ==
    \/ ScoreOrder(q, c1.vector, c2.vector) > 0
    \/ ScoreOrder(q, c1.vector, c2.vector) = 0 /\ c1.file < c2.file

\* C10: a retrieval that returns gives exactly the first min(topK, N) chunks of
\* the index ordered by descending cosine score, chunks of equal score in index
\* order: no more than topK chunks, each a chunk of the index, scores
\* non-increasing along the result, and every chunk left out ranked after every
\* chunk returned. With chunks [1,0] and [0,1], query [1,0] and topK = 1 the
\* result is the [1,0] chunk alone, in whichever order the index holds the two.
C10_TopKByScore ==
    rpc = "returned" =>
        LET N == Len(rIndex.chunks)
            inResult(c) == \E i \in 1..Len(retrieved) : retrieved[i] = c
        IN  /\ Len(retrieved) = Min(rConfig.topK, N)
            /\ \A i \in 1..Len(retrieved) : \E k \in 1..N : retrieved[i] = rIndex.chunks[k]
            /\ \A i, j \in 1..Len(retrieved) :
                  i < j => Outranks(queryVector, retrieved[i], retrieved[j])
            /\ \A k \in 1..N : \A i \in 1..Len(retrieved) :
                  ~inResult(rIndex.chunks[k]) =>
                      Outranks(queryVector, retrieved[i], rIndex.chunks[k])
            /\ (queryVector = <<1, 0>> /\ rConfig.topK = 1 /\ N = 2
                /\ {rIndex.chunks[k].vector : k \in 1..N} = {<<1, 0>>, <<0, 1>>})
                  => (Len(retrieved) = 1 /\ retrieved[1].vector = <<1, 0>>)

\* A retrieval over three chunks with topK = 2 in which two chunks tie and the
\* tie straddles the cut: the earlier of the two is returned, the later is not,
\* and the best chunk is not the first of the index.
C10_Witness ==
    /\ rpc = "returned" /\ Len(rIndex.chunks) = 3 /\ rConfig.topK = 2
    /\ Len(retrieved) = 2
    /\ retrieved[1].file = 2
    /\ retrieved[2].file = 1
    /\ ScoreOrder(queryVector, rIndex.chunks[1].vector, rIndex.chunks[3].vector) = 0

\* C11: retrieveForDiff called with an empty or white-space-only query throws,
\* returns no chunks and makes no call to the embedding service.
C11_BlankQueryRejected ==
    (rpc \notin {"idle", "start"}
     /\ \A i \in 1..Len(diffText) : diffText[i] \in {" ", "\n", "\r"}) =>
        /\ rpc = "threw"
        /\ rError \in {"Error", "ConfigurationError"}
        /\ retrieved = <<>>
        /\ rEmbedCalls = 0

\* A white-space-only query, not the empty one, rejected for being blank after
\* the configuration and a non-empty index were loaded.
C11_Witness ==
    /\ rpc = "threw" /\ rError = "Error"
    /\ diffText = <<" ", "\n">>
    /\ rConfig.state = "ok" /\ Len(rIndex.chunks) > 0
    /\ rEmbedCalls = 0

\* C12: whenever the query embedding's length differs from the dimensionality
\* the loaded index declares (dim), retrieval throws and returns no chunks; and
\* no ranking is produced from vectors of different lengths.
C12_DimensionChecked ==
    /\ (rpc \in {"returned", "threw"} /\ queryVector # <<>>
         /\ Len(queryVector) # rIndex.dim)
            => (rpc = "threw" /\ retrieved = <<>>)
    /\ rpc = "returned" =>
            \A k \in 1..Len(rIndex.chunks) :
                Len(rIndex.chunks[k].vector) = Len(queryVector)

(***************************************************************************)
(* The review hook: extractJSON, callLLM and main of                       *)
(* pre-commit-review-local-rag.ts.                                         *)
(*                                                                         *)
(* A model response is a sequence of tokens. "{", "}", "\n" and " " are    *)
(* the characters the pattern and the parser tell apart; "w" is a word of  *)
(* prose; "~~~json" and "~~~" stand for the two fence lines, three         *)
(* backquotes with and without the json tag. Inside an object,             *)
(* a severity word stands for the member "severity": "<word>", "GC" for    *)
(* "generalComments": ["..."], "IC[" ... "]" for "inlineComments": [...]   *)
(* and "ICx" for an inlineComments member that is not an array.            *)
(***************************************************************************)
MaxFindings == 2

\* callLLM's third argument at the call site (pre-commit-review-local-rag.ts:169).
Retries == 2
\* pre-commit-review-local-rag.ts:123
BackoffUnitMs == 1000

Severities == {"blocker", "warning", "nit"}
SeverityWords == Severities \cup {"Blocker"}
Whitespace == {" ", "\n"}

RECURSIVE Flatten(_)
Flatten(ss) == IF ss = <<>> THEN <<>> ELSE Head(ss) \o Flatten(Tail(ss))

\* JSON.stringify, compact: the object's members in the order severity,
\* inlineComments, generalComments.
RECURSIVE Render(_)
Render(obj) ==
    <<"{">>
    \o (IF obj.severity = "none" THEN <<>> ELSE <<obj.severity>>)
    \o (IF obj.inlineComments.isArray
        THEN <<"IC[">>
             \o Flatten([k \in 1..Len(obj.inlineComments.items) |->
                            IF obj.inlineComments.items[k] = NullItem THEN <<"null">>
                            ELSE Render(obj.inlineComments.items[k])])
             \o <<"]">>
        ELSE <<>>)
    \o (IF obj.generalComments > 0 THEN <<"GC">> ELSE <<>>)
    \o <<"}">>

\* The same text with a line break after every token but the last.
Pretty(text) ==
    Flatten([k \in 1..Len(text) |-> IF k < Len(text) THEN <<text[k], "\n">> ELSE <<text[k]>>])

\* The text in a fenced block, with prose before and after the fence.
Fenced(text) == <<"w", "w", "\n", "~~~json", "\n">> \o text \o <<"\n", "~~~", "\n", "w">>

Finding(sev) == JsonObject(sev, NotArray, 0)

\* Review results: up to MaxFindings inline findings, with or without a remark.
ReviewValues ==
    {JsonObject("none", ArrayOf([k \in 1..Len(fs) |-> Finding(fs[k])]), gc) :
        fs \in SeqsUpTo(Severities, MaxFindings), gc \in {0, 1}}

\* Objects that are JSON but not of the review's shape, or whose findings carry
\* a severity outside blocker/warning/nit, or none.
OddValues ==
    {EmptyObject, JsonObject("none", NotArray, 1), Finding("nit"),
     JsonObject("none", ArrayOf(<<Finding("Blocker")>>), 0),
     JsonObject("none", ArrayOf(<<EmptyObject>>), 0),
     JsonObject("none", ArrayOf(<<NullItem>>), 0),
     JsonObject("none", ArrayOf(<<Finding("blocker"), NullItem>>), 0)}

\* Texts that hold no JSON object.
NonJsonTexts ==
    {<<>>, <<"w">>, <<"w", "\n", "w">>, <<"{", "w">>, <<"w", "}">>, <<"{", "w", "}">>,
     <<"~~~json", "\n", "w", "\n", "~~~">>}

Responses ==
    {Render(v) : v \in ReviewValues \cup OddValues}
    \cup {Pretty(Render(v)) : v \in ReviewValues}
    \cup {Fenced(Render(v)) : v \in ReviewValues}
    \cup {Fenced(Pretty(Render(v))) : v \in ReviewValues}
    \cup {<<"{", "ICx", "}">>, <<"\n", " ">> \o Render(EmptyObject) \o <<" ", "\n">>,
          <<"{", "ICx", "}", " ", "w">>}
    \cup {<<"w", "{", "w", "}", "\n">> \o Render(v) : v \in {JsonObject("none", ArrayOf(<<>>), 0)}}
    \cup NonJsonTexts

\* What ollama.generate does: it fails, or answers with a text.
LlmOutcomes ==
    {[kind |-> "error", text |-> <<>>]} \cup {[kind |-> "text", text |-> t] : t \in Responses}

\* String.prototype.trim
RECURSIVE TrimLeft(_)
TrimLeft(text) ==
    IF text # <<>> /\ Head(text) \in Whitespace THEN TrimLeft(Tail(text)) ELSE text
RECURSIVE TrimRight(_)
TrimRight(text) ==
    IF text # <<>> /\ text[Len(text)] \in Whitespace
    THEN TrimRight(SubSeq(text, 1, Len(text) - 1)) ELSE text
Trim(text) == TrimRight(TrimLeft(text))

\* `$` of JSON_PATTERN (constants.ts:5): with the m flag, the end of the input or
\* the place before a line terminator.
AtLineEnd_InputEndOnly(text, j) == j = Len(text)
AtLineEnd(text, j) == j = Len(text) \/ text[j + 1] = "\n"

\* modelResponse.match(JSON_PATTERN) for /\{[\s\S]*\}$/m: the leftmost "{" and,
\* the star being greedy, the last "}" after it that stands at a line end.
MatchJsonPattern(text) ==
    LET opens  == {i \in 1..Len(text) : text[i] = "{"}
        first  == CHOOSE i \in opens : \A k \in opens : i <= k
        closes == IF opens = {} THEN {}
                  ELSE {j \in (first + 1)..Len(text) : text[j] = "}" /\ AtLineEnd(text, j)}
        last   == CHOOSE j \in closes : \A k \in closes : j >= k
    IN  IF closes = {} THEN [matched |-> FALSE, text |-> <<>>]
        ELSE [matched |-> TRUE, text |-> SubSeq(text, first, last)]

RECURSIVE SkipWs(_, _)
SkipWs(text, i) ==
    IF i <= Len(text) /\ text[i] \in Whitespace THEN SkipWs(text, i + 1) ELSE i

ParseFailed == [ok |-> FALSE, next |-> 0, value |-> EmptyObject]

\* JSON.parse of an object: "{", members, "}", white space between the tokens;
\* of two members of one name the later one stays.
RECURSIVE ParseObject(_, _)
RECURSIVE ParseMembers(_, _, _)
RECURSIVE ParseItems(_, _, _)
ParseObject(text, i) ==
    IF i > Len(text) \/ text[i] # "{" THEN ParseFailed
    ELSE ParseMembers(text, SkipWs(text, i + 1), EmptyObject)

ParseMembers(text, i, obj) ==
    IF i > Len(text) THEN ParseFailed
    ELSE IF text[i] = "}" THEN [ok |-> TRUE, next |-> i + 1, value |-> obj]
    ELSE IF text[i] \in SeverityWords
         THEN ParseMembers(text, SkipWs(text, i + 1), [obj EXCEPT !.severity = text[i]])
    ELSE IF text[i] = "GC"
         THEN ParseMembers(text, SkipWs(text, i + 1), [obj EXCEPT !.generalComments = 1])
    ELSE IF text[i] = "ICx"
         THEN ParseMembers(text, SkipWs(text, i + 1), [obj EXCEPT !.inlineComments = NotArray])
    ELSE IF text[i] = "IC["
         THEN LET r == ParseItems(text, SkipWs(text, i + 1), <<>>)
              IN  IF r.ok
                  THEN ParseMembers(text, SkipWs(text, r.next),
                                    [obj EXCEPT !.inlineComments = ArrayOf(r.value)])
                  ELSE ParseFailed
    ELSE ParseFailed

ParseItems(text, i, items) ==
    IF i > Len(text) THEN ParseFailed
    ELSE IF text[i] = "]" THEN [ok |-> TRUE, next |-> i + 1, value |-> items]
    ELSE IF text[i] = "null"
         THEN ParseItems(text, SkipWs(text, i + 1), Append(items, NullItem))
    ELSE LET r == ParseObject(text, i)
         IN  IF r.ok THEN ParseItems(text, SkipWs(text, r.next), Append(items, r.value))
             ELSE ParseFailed

\* JSON.parse: the whole text is one object, white space around it allowed.
JsonParse(text) ==
    LET r == ParseObject(text, SkipWs(text, 1))
    IN  IF r.ok /\ SkipWs(text, r.next) > Len(text)
        THEN [found |-> TRUE, value |-> r.value]
        ELSE [found |-> FALSE, value |-> EmptyObject]

\* extractJSON (pre-commit-review-local-rag.ts:93-101): the object, or null.
extractJSON(modelResponse) ==
    LET jsonMatch == MatchJsonPattern(modelResponse)
    IN  IF ~jsonMatch.matched THEN [found |-> FALSE, value |-> EmptyObject]
        ELSE JsonParse(jsonMatch.text)

\* pre-commit-review-local-rag.ts:176
InlineComments(result) ==
    IF result.inlineComments.isArray THEN result.inlineComments.items ELSE <<>>

\* A severity folded to lower case, as a case-insensitive comparison would.
Lower(sev) == IF sev = "Blocker" THEN "blocker" ELSE sev

\* pre-commit-review-local-rag.ts:193-194
HasBlockingIssues_AnyCase(result, blockOn) ==
    \E k \in 1..Len(InlineComments(result)) : Lower(InlineComments(result)[k].severity) \in blockOn
HasBlockingIssues_FirstOnly(result, blockOn) ==
    InlineComments(result) # <<>> /\ InlineComments(result)[1].severity \in blockOn
HasBlockingIssues(result, blockOn) ==
    \E k \in 1..Len(InlineComments(result)) : InlineComments(result)[k].severity \in blockOn

\* pre-commit-review-local-rag.ts:186-191: printing the inline comments reads
\* comment.file, which throws a TypeError on null.
PrintThrows(result) ==
    \E k \in 1..Len(InlineComments(result)) : InlineComments(result)[k] = NullItem

\* main once callLLM has returned (pre-commit-review-local-rag.ts:171-206): the
\* exit status, `found` telling an object from null.
Decide_FailOpen(found, result, blockOn) ==
    IF found /\ (PrintThrows(result) \/ HasBlockingIssues(result, blockOn)) THEN 1 ELSE 0
Decide(found, result, blockOn) ==
    IF ~found THEN 1
    ELSE IF PrintThrows(result) THEN 1
    ELSE IF HasBlockingIssues(result, blockOn) THEN 1
    ELSE 0

\* The loop test of callLLM (pre-commit-review-local-rag.ts:112).
AttemptsRemain_OneMore(n, retries) == n <= retries + 1
AttemptsRemain(n, retries) == n <= retries

\* pre-commit-review-local-rag.ts:119
IsLastAttempt_Any(n, retries) == TRUE
IsLastAttempt(n, retries) == n = retries

RECURSIVE Pow2(_)
Pow2(n) == IF n = 0 THEN 1 ELSE 2 * Pow2(n - 1)

\* pre-commit-review-local-rag.ts:123
BackoffMs(n) == Pow2(n) * BackoffUnitMs

ReviewConfigs ==
    UnreadableConfigs \cup {ConfigRecord("ok", 2, 0, 1, b, 8) : b \in SUBSET Severities}
    \cup {ConfigRecord("ok", 2, 0, 1, {"Blocker"}, 8)}

StagedChoices ==
    {[ok |-> FALSE, text |-> <<>>]}
    \cup {[ok |-> TRUE, text |-> t] : t \in {<<>>, <<"\n">>, <<"a">>}}

ReviewEntered ==
    /\ staged \in StagedChoices
    /\ reviewConfig = NoConfig
    /\ relevantContexts = <<>> /\ attempt = 0 /\ lastOutcome = NoOutcome
    /\ failures = <<>> /\ waits = <<>> /\ llmCalls = 0 /\ callOutcome = "none"
    /\ reviewResult = EmptyObject /\ reviewExit = -1 /\ vpc = "start"

\* process.exit(status)
ReviewExit(status) ==
    /\ vpc' = "exited"
    /\ reviewExit' = status

\* pre-commit-review-local-rag.ts:151-160: the configuration is loaded, the staged
\* changes are read, retrieveForDiff is called.
ReviewStart ==
    /\ vpc = "start"
    /\ IF configFile.state # "ok" \/ ~staged.ok
       THEN \* loadConfig or execSync throws: the catch at 203-206
            /\ ReviewExit(1)
            /\ UNCHANGED <<reviewConfig, diffText, rpc>>
       ELSE IF staged.text = <<>>
       THEN \* lines 155-158
            /\ ReviewExit(0)
            /\ reviewConfig' = configFile
            /\ UNCHANGED <<diffText, rpc>>
       ELSE /\ reviewConfig' = configFile
            /\ diffText' = staged.text
            /\ rpc' = "start"
            /\ vpc' = "retrieving"
            /\ UNCHANGED reviewExit
    /\ UNCHANGED <<staged, relevantContexts, attempt, lastOutcome, failures, waits, llmCalls,
                   callOutcome, reviewResult>>
    /\ UNCHANGED <<queryResponse, rConfig, rIndex, queryVector, retrieved, rError, rEmbedCalls>>
    /\ UNCHANGED <<stored, chunkVars, buildVars, formatVars>>

\* pre-commit-review-local-rag.ts:160-169: retrieveForDiff has settled; the prompt
\* is assembled and callLLM is entered.
ReviewRetrieved ==
    /\ vpc = "retrieving"
    /\ rpc \in {"returned", "threw"}
    /\ IF rpc = "threw"
       THEN /\ ReviewExit(1)
            /\ UNCHANGED <<relevantContexts, attempt>>
       ELSE /\ relevantContexts' = retrieved
            /\ attempt' = 0
            /\ vpc' = "generate"
            /\ UNCHANGED reviewExit
    /\ UNCHANGED <<staged, reviewConfig, lastOutcome, failures, waits, llmCalls,
                   callOutcome, reviewResult>>
    /\ UNCHANGED <<stored, chunkVars, buildVars, retrieveVars, formatVars>>

\* One attempt of callLLM (pre-commit-review-local-rag.ts:112-124) from the moment
\* ollama.generate settles, and, when callLLM ends with it, the rest of main
\* (171-206).
ReviewGenerate ==
    /\ vpc = "generate"
    /\ \E outcome \in LlmOutcomes :
         LET parsed == extractJSON(Trim(outcome.text))
         IN  /\ lastOutcome' = outcome
             /\ llmCalls' = llmCalls + 1
             /\ IF outcome.kind = "error"
                THEN /\ failures' = Append(failures, "error")
                     /\ IF IsLastAttempt(attempt, Retries)
                        THEN \* line 120 throws; main's catch (203-206)
                             /\ callOutcome' = "threw"
                             /\ ReviewExit(1)
                             /\ UNCHANGED waits
                        ELSE /\ waits' = Append(waits, BackoffMs(attempt))
                             /\ vpc' = "backoff"
                             /\ UNCHANGED <<callOutcome, reviewExit>>
                     /\ UNCHANGED <<attempt, reviewResult>>
                ELSE IF parsed.found
                THEN \* line 117 returns the object
                     /\ callOutcome' = "value"
                     /\ reviewResult' = parsed.value
                     /\ ReviewExit(Decide(TRUE, parsed.value, reviewConfig.blockOnSeverities))
                     /\ UNCHANGED <<attempt, failures, waits>>
                ELSE /\ failures' = Append(failures, "parse")
                     /\ attempt' = attempt + 1
                     /\ IF AttemptsRemain(attempt + 1, Retries)
                        THEN UNCHANGED <<callOutcome, reviewExit, vpc>>
                        ELSE \* line 126 returns null
                             /\ callOutcome' = "null"
                             /\ ReviewExit(Decide(FALSE, EmptyObject,
                                                  reviewConfig.blockOnSeverities))
                     /\ UNCHANGED <<waits, reviewResult>>
    /\ UNCHANGED <<staged, reviewConfig, relevantContexts>>
    /\ UNCHANGED <<stored, chunkVars, buildVars, retrieveVars, formatVars>>

\* pre-commit-review-local-rag.ts:123, the timer fires: the next attempt.
ReviewBackoffElapsed ==
    /\ vpc = "backoff"
    /\ attempt' = attempt + 1
    /\ vpc' = "generate"
    /\ UNCHANGED <<staged, reviewConfig, relevantContexts, lastOutcome, failures, waits,
                   llmCalls, callOutcome, reviewResult, reviewExit>>
    /\ UNCHANGED <<stored, chunkVars, buildVars, retrieveVars, formatVars>>

ReviewNext ==
    \/ ReviewStart
    \/ RetrieveStart
    \/ RetrieveEmbedded
    \/ ReviewRetrieved
    \/ ReviewGenerate
    \/ ReviewBackoffElapsed

ReviewInit ==
    /\ configFile \in ReviewConfigs
    /\ indexFile \in {NoIndex, IndexOf(<<<<1, 0>>, <<0, 1>>>>)}
    /\ queryResponse \in {[kind |-> "rejected", embedding |-> <<>>],
                          [kind |-> "array", embedding |-> <<1, 0>>],
                          [kind |-> "array", embedding |-> <<1>>]}
    /\ diffText = <<>> /\ rConfig = NoConfig /\ rIndex = NoIndex /\ queryVector = <<>>
    /\ retrieved = <<>> /\ rError = "none" /\ rpc = "idle" /\ rEmbedCalls = 0
    /\ ReviewEntered /\ ChunkIdle /\ BuildIdle /\ FormatIdle

SpecReview == ReviewInit /\ [][ReviewNext]_vars

\* The same program when every ollama.generate call settles (line 114 awaits it)
\* and every backoff timer fires (line 123).
SpecReviewLive ==
    SpecReview /\ WF_vars(ReviewGenerate) /\ WF_vars(ReviewBackoffElapsed)

(***************************************************************************)
(* Claims about the review hook.                                           *)
(***************************************************************************)
Findings(result) == InlineComments(result)
FindingSeverities(result) == [k \in 1..Len(Findings(result)) |-> Findings(result)[k].severity]

\* C1: a review run in which no attempt produced a parseable result (every
\* attempt failed, by an unparseable response or by an error of the model call)
\* ends with exit status 1, whatever blockOnSeverities is; it never reaches the
\* exit 0 of a passed review.
C1_FailClosed ==
    (vpc = "exited" /\ llmCalls > 0 /\ callOutcome # "value") =>
        /\ Len(failures) = llmCalls
        /\ reviewExit = 1

\* A run that ended without a result, after an error and two unparseable
\* responses, under the configuration that blocks on no severity at all.
C1_Witness ==
    /\ vpc = "exited" /\ callOutcome = "null"
    /\ failures = <<"error", "parse", "parse">>
    /\ reviewConfig.blockOnSeverities = {}

\* C2: for a parsed review result (an object whose inline findings, if any, are
\* objects) the run ends with exit 1 (BLOCK) exactly when some inline finding
\* has a severity that is a member of blockOnSeverities, and with exit 0 (ALLOW)
\* otherwise; general remarks play no part. With
\* blockOnSeverities = {blocker}, findings of nit and warning only give ALLOW,
\* and one blocker among them gives BLOCK.
C2_GatingRule ==
    (vpc = "exited" /\ callOutcome = "value" /\ ~PrintThrows(reviewResult)) =>
        LET sev     == FindingSeverities(reviewResult)
            blockOn == reviewConfig.blockOnSeverities
        IN  /\ reviewExit \in {0, 1}
            /\ reviewExit = 1 <=> (\E k \in 1..Len(sev) : sev[k] \in blockOn)
            /\ (blockOn = {"blocker"} /\ \A k \in 1..Len(sev) : sev[k] \in {"nit", "warning"})
                  => reviewExit = 0
            /\ (blockOn = {"blocker"} /\ \E k \in 1..Len(sev) : sev[k] = "blocker")
                  => reviewExit = 1

\* Blocking on blocker only: a nit followed by a blocker, with a general remark.
C2_Witness ==
    /\ vpc = "exited" /\ callOutcome = "value" /\ reviewExit = 1
    /\ reviewConfig.blockOnSeverities = {"blocker"}
    /\ FindingSeverities(reviewResult) = <<"nit", "blocker">>
    /\ reviewResult.generalComments = 1

C8_AtMostNCalls == llmCalls <= Retries

\* C8, amended: a review call with retries = N invokes the model at most N + 1
\* times, exactly N + 1 times when no attempt yields a result, and makes no
\* further invocation once an attempt has yielded a parsed result; when every
\* invocation settles, the call ends.
C8_BoundedAttempts ==
    /\ [](/\ llmCalls <= Retries + 1
          /\ callOutcome # "none" => vpc = "exited"
          /\ callOutcome = "value" => llmCalls = Len(failures) + 1
          /\ callOutcome \in {"null", "threw"} => llmCalls = Retries + 1)
    /\ (vpc = "generate" ~> callOutcome # "none")

\* The model is invoked a third time, and that attempt yields the result.
C8_Witness ==
    /\ llmCalls = Retries + 1
    /\ callOutcome = "value"

\* Some part of the text is a JSON object.
ContainsObject(text) ==
    \E i \in 1..Len(text) : \E j \in i..Len(text) : JsonParse(SubSeq(text, i, j)).found

\* C9: a response that is exactly a JSON object (on one line or on several) and
\* the same object inside a json fence with prose before and after the fence
\* both yield that object; a response with no JSON object in it makes the
\* attempt fail, and a run in which every attempt fails so ends without a result.
C9_ExtractionAccepts ==
    /\ \A v \in ReviewValues :
          (lastOutcome.kind = "text"
           /\ lastOutcome.text \in {Render(v), Pretty(Render(v)),
                                    Fenced(Render(v)), Fenced(Pretty(Render(v)))})
             => (callOutcome = "value" /\ reviewResult = v)
    /\ (lastOutcome.kind = "text" /\ ~ContainsObject(lastOutcome.text))
          => (callOutcome # "value" /\ failures # <<>> /\ failures[Len(failures)] = "parse")
    /\ (vpc = "exited" /\ failures = <<"parse", "parse", "parse">>)
          => (callOutcome = "null" /\ reviewExit = 1)

\* After two responses without JSON, a fenced object of two findings laid out
\* over several lines is accepted.
C9_Witness ==
    /\ failures = <<"parse", "parse">>
    /\ callOutcome = "value"
    /\ Len(Findings(reviewResult)) = 2
    /\ lastOutcome.text = Fenced(Pretty(Render(reviewResult)))

\* C21: every failed attempt that is not the last one, whether the model call
\* raised or the response was not JSON, is followed by a wait before the next
\* attempt; the k-th wait is 2^(k-1) units, each twice the one before.
C21_BackoffBeforeEveryRetry ==
    /\ Len(waits) = Min(Len(failures), Retries)
    /\ \A k \in 1..Len(waits) : waits[k] = (2 ^ (k - 1)) * BackoffUnitMs

\* C22: a response that is prose holding braces, followed by a JSON object that
\* ends the text, with no fence in it, yields that last object.
C22_LastObjectExtracted ==
    \A v \in ReviewValues :
        (lastOutcome.kind = "text"
         /\ lastOutcome.text = <<"w", "{", "w", "}", "\n">> \o Render(v))
            => (callOutcome = "value" /\ reviewResult = v)

\* C23: a response that is a JSON object without the required shape (the empty
\* object, an object with no inlineComments, an object whose inlineComments is
\* not a list) counts as a failed attempt, and the run does not end in exit 0
\* on it.
C23_ShapeEnforced ==
    (lastOutcome.kind = "text"
     /\ lastOutcome.text \in {Render(EmptyObject), Render(JsonObject("none", NotArray, 1)),
                              <<"{", "ICx", "}">>})
        => (callOutcome # "value" /\ reviewExit # 0)

\* The stored configuration record is replaced by another hand while the hook
\* runs (an editor, a checkout): a record with another topK and another
\* blocking set, or a file that is not JSON.
\* Results whose only findings carry a severity outside blocker/warning/nit:
\* another letter case, or none at all.
UnlistedSeverityResults ==
    {JsonObject("none", ArrayOf(<<Finding("Blocker")>>), 0),
     JsonObject("none", ArrayOf(<<EmptyObject>>), 0)}

\* C29: a response that is a result whose only findings have a severity
\* outside blocker/warning/nit (another letter case, or no severity) is parsed
\* and accepted as the result, not rejected; the run ends with exit 1 exactly
\* when that very string is a member of blockOnSeverities, and with exit 0
\* (ALLOW) under every blockOnSeverities made of blocker, warning and nit.
C29_UnlistedSeverities ==
    \A v \in UnlistedSeverityResults :
        (vpc = "exited" /\ lastOutcome.kind = "text" /\ lastOutcome.text = Render(v)) =>
            LET sev     == FindingSeverities(v)
                blockOn == reviewConfig.blockOnSeverities
            IN  /\ callOutcome = "value" /\ reviewResult = v
                /\ reviewExit = (IF \E k \in 1..Len(sev) : sev[k] \in blockOn THEN 1 ELSE 0)
                /\ blockOn \subseteq Severities => reviewExit = 0

\* A review whose one finding is a "Blocker" passes under
\* blockOnSeverities = {blocker}.
C29_Witness ==
    /\ vpc = "exited" /\ callOutcome = "value" /\ reviewExit = 0
    /\ reviewConfig.blockOnSeverities = {"blocker"}
    /\ FindingSeverities(reviewResult) = <<"Blocker">>
    /\ lastOutcome.text = Render(reviewResult)

EditedConfigs ==
    {ConfigRecord("ok", 2, 0, 2, {}, 8), ConfigRecord("malformed", 0, 0, 0, {}, 0)}

ConfigEdited ==
    /\ vpc \in {"start", "retrieving", "generate", "backoff"}
    /\ configFile' \in EditedConfigs
    /\ configFile' # configFile
    /\ UNCHANGED <<indexFile, chunkVars, buildVars, retrieveVars, reviewVars, formatVars>>

ReviewEditNext == ReviewNext \/ ConfigEdited

\* The review hook with the stored record open to change while it runs.
SpecReviewEdit == ReviewInit /\ [][ReviewEditNext]_vars

\* C26: one review invocation reads the configuration record once, so the
\* record the retriever acts on is the record main acts on, also when the
\* stored record changes while the invocation runs.
C26_SingleConfigLoad ==
    (vpc \in {"retrieving", "generate", "backoff", "exited"} /\ rpc \notin {"idle", "start"}) =>
        /\ rError = "ConfigurationError" => ~indexFile.exists
        /\ rError # "ConfigurationError" => rConfig = reviewConfig

(***************************************************************************)
(* The context budgeter: formatContexts of pre-commit-review-local-rag.ts. *)
(* A text is a sequence of characters; its length is String.length.        *)
(***************************************************************************)
MaxContextChunks == 3
MaxBudget == 50

\* A number in a template literal: its decimal digits.
RECURSIVE Digits(_)
Digits(n) ==
    LET d == <<"0", "1", "2", "3", "4", "5", "6", "7", "8", "9">>
    IN  IF n < 10 THEN <<d[n + 1]>> ELSE Digits(n \div 10) \o <<d[(n % 10) + 1]>>

\* pre-commit-review-local-rag.ts:138
ChunkHeader(chunk) ==
    <<"F", "I", "L", "E", ":", " ">> \o chunk.file \o <<" ", "[">>
    \o Digits(chunk.startLine) \o <<"-">> \o Digits(chunk.endLine) \o <<"]">>

\* pre-commit-review-local-rag.ts:139-140
ChunkBlock(chunk) ==
    ChunkHeader(chunk) \o <<"\n">> \o chunk.text \o <<"\n", "-", "-", "-", "\n">>

\* pre-commit-review-local-rag.ts:141, negated: the block is appended.
Fits_BlockAlone(bufferLength, blockLength, maxC) == ~(blockLength > maxC)
Fits(bufferLength, blockLength, maxC) == ~(bufferLength + blockLength > maxC)

\* Where the loop goes on after a block that does not fit: `break` leaves the
\* loop (pre-commit-review-local-rag.ts:140).
AfterMisfit_Continue(cs, k) == k + 1
AfterMisfit(cs, k) == Len(cs) + 1

\* The loop of formatContexts from chunk k on (137-143): break at the first
\* block that does not fit.
RECURSIVE FormatFrom(_, _, _, _)
FormatFrom(cs, k, buffer, maxC) ==
    IF k > Len(cs) THEN buffer
    ELSE LET chunkBlock == ChunkBlock(cs[k])
         IN  IF Fits(Len(buffer), Len(chunkBlock), maxC)
             THEN FormatFrom(cs, k + 1, buffer \o chunkBlock, maxC)
             ELSE FormatFrom(cs, AfterMisfit(cs, k), buffer, maxC)

\* formatContexts (pre-commit-review-local-rag.ts:135-145)
formatContexts(cs, maxC) == FormatFrom(cs, 1, <<>>, maxC)

\* Retrieved chunks: a short or a longer path, a text of no, one or two lines.
ContextChunkChoices ==
    {[file |-> f, startLine |-> 1, endLine |-> 1, text |-> t] :
        f \in {<<"f">>, <<"d", "/", "f">>}, t \in {<<>>, <<"a">>}}
    \cup {[file |-> <<"f">>, startLine |-> 9, endLine |-> 10, text |-> <<"a", "\n", "a">>]}

FormatEntered ==
    /\ contextChunks \in SeqsUpTo(ContextChunkChoices, MaxContextChunks)
    /\ budgetChars \in 0..MaxBudget
    /\ formattedContext = <<>>
    /\ fpc = "start"
    /\ PromptIdle

FormatCall ==
    /\ fpc = "start"
    /\ formattedContext' = formatContexts(contextChunks, budgetChars)
    /\ fpc' = "done"
    /\ UNCHANGED <<contextChunks, budgetChars, stagedChanges, promptLimit, reviewPrompt>>
    /\ UNCHANGED <<stored, chunkVars, buildVars, retrieveVars, reviewVars>>

FormatNext == FormatCall

FormatInit ==
    FormatEntered /\ StoredIdle /\ ChunkIdle /\ BuildIdle /\ RetrieveIdle /\ ReviewIdle

SpecFormat == FormatInit /\ [][FormatNext]_vars

(***************************************************************************)
(* Claims about the context budgeter.                                      *)
(***************************************************************************)
\* The blocks of the chunks at the positions in S, joined in list order.
RECURSIVE BlocksAt(_, _, _)
BlocksAt(cs, S, k) ==
    IF k > Len(cs) THEN <<>>
    ELSE (IF k \in S THEN ChunkBlock(cs[k]) ELSE <<>>) \o BlocksAt(cs, S, k + 1)

\* C15: for every ranked chunk list and every budget the buffer formatContexts
\* returns is no longer than the budget and is made of whole blocks (header,
\* text, separator) of chunks of the list, in list order; no block is in it
\* partially.
C15_ContextBudget ==
    fpc = "done" =>
        /\ Len(formattedContext) <= budgetChars
        /\ \E S \in SUBSET (1..Len(contextChunks)) :
              formattedContext = BlocksAt(contextChunks, S, 1)

\* Three chunks of which the first two fit the budget and the third does not,
\* the buffer falling short of the budget.
C15_Witness ==
    /\ fpc = "done"
    /\ Len(contextChunks) = 3
    /\ formattedContext = ChunkBlock(contextChunks[1]) \o ChunkBlock(contextChunks[2])
    /\ Len(formattedContext) < budgetChars

\* C28: the buffer is the concatenation of the blocks of a prefix of the
\* ranked list, and when the prefix is not the whole list the block right
\* after it does not fit the remaining budget; no lower-ranked block is
\* included after it, even one that alone would still fit.
C28_PrefixOnly ==
    fpc = "done" =>
        \E n \in 0..Len(contextChunks) :
            /\ formattedContext = BlocksAt(contextChunks, 1..n, 1)
            /\ n < Len(contextChunks) =>
                  Len(formattedContext) + Len(ChunkBlock(contextChunks[n + 1])) > budgetChars

\* Three chunks: the first is included, the second does not fit, and the third,
\* shorter, would still fit in the remaining budget but is left out.
C28_Witness ==
    /\ fpc = "done"
    /\ Len(contextChunks) = 3
    /\ formattedContext = ChunkBlock(contextChunks[1])
    /\ Len(formattedContext) + Len(ChunkBlock(contextChunks[2])) > budgetChars
    /\ Len(formattedContext) + Len(ChunkBlock(contextChunks[3])) <= budgetChars

(***************************************************************************)
(* The prompt assembly: main lines 160-168 and createReviewPrompt of       *)
(* pre-commit-review-local-rag.ts.                                         *)
(***************************************************************************)
\* The characters of the template from "You are a strict code reviewer" to the
\* line break after "CONTEXT:" (lines 59-78).
InstructionChars == 833

Repeat(c, n) == [i \in 1..n |-> c]

\* Math.floor(maxPromptChars * CONTEXT_SIZE_RATIO) (line 161) in double
\* arithmetic: the product with 0.7 falls just below the whole number for the
\* listed values (up to 1000) and the floor is one less than 7/10 of them.
FloorBelow == {90, 170, 180, 330, 340, 350, 360, 650, 660, 670, 680, 690, 700, 710, 720, 730}
ContextBudget(maxPromptChars) ==
    ((maxPromptChars * 7) \div 10) - (IF maxPromptChars \in FloorBelow THEN 1 ELSE 0)

\* stagedChanges.slice(0, Math.floor(maxPromptChars)) (line 167)
SliceDiff(diff, maxPromptChars) == SubSeq(diff, 1, Min(maxPromptChars, Len(diff)))

\* createReviewPrompt (57-86): the template with the two texts put in, trimmed.
createReviewPrompt(projectContext, codeChanges) ==
    Trim(<<"\n">> \o Repeat("i", InstructionChars) \o projectContext
         \o <<"\n", "\n", "D", "I", "F", "F", ":", "\n">> \o codeChanges
         \o <<"\n", "\n">>
         \o <<"R", "e", "t", "u", "r", "n", " ", "J", "S", "O", "N", " ", "n", "o", "w", ":">>
         \o <<"\n">>)

PromptLimits == {8, 30, 90, 1000}
DiffChoices == {Repeat("d", n) : n \in {1, 12, 1200}}

PromptEntered ==
    /\ contextChunks \in SeqsUpTo(ContextChunkChoices, MaxContextChunks)
    /\ stagedChanges \in DiffChoices
    /\ promptLimit \in PromptLimits
    /\ budgetChars = 0 /\ formattedContext = <<>> /\ reviewPrompt = <<>>
    /\ fpc = "main"

\* main, lines 160-168: the context is formatted within its share of the
\* budget, the diff is cut, the prompt is put together.
PromptAssemble ==
    /\ fpc = "main"
    /\ budgetChars' = ContextBudget(promptLimit)
    /\ formattedContext' = formatContexts(contextChunks, ContextBudget(promptLimit))
    /\ reviewPrompt' =
          createReviewPrompt(formatContexts(contextChunks, ContextBudget(promptLimit)),
                             SliceDiff(stagedChanges, promptLimit))
    /\ fpc' = "prompted"
    /\ UNCHANGED <<contextChunks, stagedChanges, promptLimit>>
    /\ UNCHANGED <<stored, chunkVars, buildVars, retrieveVars, reviewVars>>

PromptNext == PromptAssemble

PromptInit ==
    PromptEntered /\ StoredIdle /\ ChunkIdle /\ BuildIdle /\ RetrieveIdle /\ ReviewIdle

SpecPrompt == PromptInit /\ [][PromptNext]_vars

\* C25: the prompt sent to the model (instructions, context buffer, cut diff)
\* is never longer than maxPromptChars.
C25_PromptWithinLimit ==
    fpc = "prompted" => Len(reviewPrompt) <= promptLimit

====
